---- MODULE Spec2Model ----
(***************************************************************************)
(* Model of src/anthropic/_compat.py: the pydantic v1/v2 compatibility     *)
(* module.  The module is executed once at import (detection of the        *)
(* installed major version, conditional imports, class definition); after  *)
(* that its nine facade functions may be called in any order.              *)
(*                                                                         *)
(* pydantic itself is not part of the repository.  Every call into it is   *)
(* an interaction with the environment: the environment chooses what the   *)
(* delegate returns or raises and what it does to the objects passed in.   *)
(***************************************************************************)
EXTENDS Integers, Sequences, FiniteSets, TLC

\* ---------------------------------------------------------------------------
\* Bounds
\* ---------------------------------------------------------------------------

\* longest version string considered (in characters)
MaxVerLen == 3

\* ---------------------------------------------------------------------------
\* Installed version strings
\* ---------------------------------------------------------------------------

VerChars == {"0", "1", "2", "3", "."}

\* a version string: numeric components separated by single dots
IsVersionString(s) ==
    /\ s[1] # "."
    /\ s[Len(s)] # "."
    /\ \A i \in 1..(Len(s) - 1) : ~(s[i] = "." /\ s[i + 1] = ".")

\* the values pydantic.VERSION may have, up to MaxVerLen characters
Versions ==
    {s \in UNION {[1..n -> VerChars] : n \in 1..MaxVerLen} : IsVersionString(s)}

\* a prefix test that compares the first character only
startswith_firstchar(s, prefix) ==
    /\ Len(s) >= 1
    /\ Len(prefix) >= 1
    /\ s[1] = prefix[1]

\* str.startswith
startswith(s, prefix) ==
    /\ Len(s) >= Len(prefix)
    /\ SubSeq(s, 1, Len(prefix)) = prefix

\* ---------------------------------------------------------------------------
\* Names bound while the module body runs
\* ---------------------------------------------------------------------------

HelperOrder ==
    <<"get_args", "is_union", "get_origin", "is_typeddict",
      "is_literal_type", "parse_date", "parse_datetime">>

Helpers == {HelperOrder[i] : i \in 1..Len(HelperOrder)}

FacadeOps ==
    {"parse_obj", "field_is_required", "field_get_default", "field_outer_type",
     "get_model_config", "get_model_fields", "model_copy", "model_json",
     "model_dump"}

\* the names the module body binds according to the flag
Names == {"ConfigDict", "GenericModel"} \cup Helpers

Unbound == <<>>

\* the upstream submodule a helper lives in
HelperModule(name) ==
    IF name \in {"parse_date", "parse_datetime"} THEN "datetime_parse" ELSE "typing"

\* ---------------------------------------------------------------------------
\* Values and outcomes of upstream calls
\* ---------------------------------------------------------------------------

\* "Undefined" is the installed upstream's "no default provided" sentinel,
\* "None" the language's absence marker, "a" an ordinary value.
\* "EqAny" is an object whose __eq__ answers True to everything; "EqRaises" is
\* an object for which evaluating `value == other` in a condition raises
\* (its __eq__ raises, or the truth value of what it returns does).
Values == {"None", "Undefined", "a", "EqAny", "EqRaises"}

\* errors the upstream delegates raise; "CmpError" below stands for whatever
\* the comparison of line 93 raises
UpstreamErrors == {"ValidationError", "AttributeError"}

Ret(v) == [kind |-> "ret", val |-> v]

Raise(e) == [kind |-> "raise", val |-> e]

\* what a delegate can do when invoked
DelegateOutcomes == {Ret(v) : v \in Values} \cup {Raise(e) : e \in UpstreamErrors}

\* the objects handed to a call (model type, instance, field metadata) as
\* upstream left them: two distinguishable states
HeapStates == {"s0", "s1"}

NoCall ==
    [op |-> "none", invoked |-> <<>>, delegate |-> Ret("None"),
     result |-> Ret("None"), post |-> "s0"]

VARIABLES
    VERSION,      \* pydantic.VERSION
    pc,           \* position in the module body
    PYDANTIC_V2,  \* the module-level flag (meaningful once writes["PYDANTIC_V2"] > 0)
    bound,        \* module namespace: name in Names -> what it is bound to
    writes,       \* name (PYDANTIC_V2 included) -> number of times it has been bound
    heap,         \* state of the upstream objects handed to the facade
    call          \* the last facade call: what it invoked, got and gave back

vars == <<VERSION, pc, PYDANTIC_V2, bound, writes, heap, call>>

Init ==
    /\ VERSION \in Versions
    /\ pc = "detect"
    /\ PYDANTIC_V2 = FALSE
    /\ bound = [n \in Names |-> Unbound]
    /\ writes = [n \in Names \cup {"PYDANTIC_V2"} |-> 0]
    /\ heap \in HeapStates
    /\ call = NoCall

\* a module-level binding statement: name = target
Bind(name, target) ==
    /\ bound' = [bound EXCEPT ![name] = target]
    /\ writes' = [writes EXCEPT ![name] = @ + 1]

\* line 18
Detect ==
    /\ pc = "detect"
    /\ PYDANTIC_V2' = startswith(VERSION, <<"2", ".">>)
    /\ writes' = [writes EXCEPT !["PYDANTIC_V2"] = @ + 1]
    /\ pc' = "helpers"
    /\ UNCHANGED <<VERSION, bound, heap, call>>

\* the first helper, in source order, not yet imported
NextHelper ==
    HelperOrder[CHOOSE i \in 1..Len(HelperOrder) :
                    /\ writes[HelperOrder[i]] = 0
                    /\ \A j \in 1..(i - 1) : writes[HelperOrder[j]] > 0]

AllHelpersBound == \A h \in Helpers : writes[h] > 0

\* the v2 branch importing is_union from the top-level namespace
ImportSource_mixed(flag, name) ==
    IF flag /\ name # "is_union"
    THEN <<"pydantic.v1", HelperModule(name), name>>
    ELSE <<"pydantic", HelperModule(name), name>>

\* lines 45-60: where `from ... import name as name` takes the helper from
ImportSource(flag, name) ==
    IF flag
    THEN <<"pydantic.v1", HelperModule(name), name>>
    ELSE <<"pydantic", HelperModule(name), name>>

\* lines 46-52 / 54-60: one import statement succeeds
ImportHelper ==
    /\ pc = "helpers"
    /\ ~AllHelpersBound
    /\ Bind(NextHelper, ImportSource(PYDANTIC_V2, NextHelper))
    /\ pc' = IF \A h \in Helpers \ {NextHelper} : writes[h] > 0
             THEN "config" ELSE "helpers"
    /\ UNCHANGED <<VERSION, PYDANTIC_V2, heap, call>>

\* lines 46-52 / 54-60: the installed package lacks the submodule or the
\* name; the ImportError is not caught and the module body stops
ImportHelperFails ==
    /\ pc = "helpers"
    /\ ~AllHelpersBound
    /\ pc' = "failed"
    /\ UNCHANGED <<VERSION, PYDANTIC_V2, bound, writes, heap, call>>

\* lines 67-71
ConfigDictTarget(flag) ==
    IF flag THEN <<"pydantic", "ConfigDict">> ELSE <<"None">>

BindConfigDict ==
    /\ pc = "config"
    /\ Bind("ConfigDict", ConfigDictTarget(PYDANTIC_V2))
    /\ pc' = "defs"
    /\ UNCHANGED <<VERSION, PYDANTIC_V2, heap, call>>

\* line 68: `from pydantic import ConfigDict` raises if the installed package
\* does not export the name
BindConfigDictFails ==
    /\ pc = "config"
    /\ PYDANTIC_V2
    /\ pc' = "failed"
    /\ UNCHANGED <<VERSION, PYDANTIC_V2, bound, writes, heap, call>>

\* lines 75-132: the nine def statements; they create the functions and
\* touch none of the version-dependent names
DefineFacade ==
    /\ pc = "defs"
    /\ pc' = "generic"
    /\ UNCHANGED <<VERSION, PYDANTIC_V2, bound, writes, heap, call>>

\* lines 142-152: the bases of the GenericModel class statement
GenericModelBases(flag) ==
    IF flag
    THEN <<"pydantic.BaseModel">>
    ELSE <<"pydantic.generics.GenericModel", "pydantic.BaseModel">>

DefineGenericModel ==
    /\ pc = "generic"
    /\ Bind("GenericModel", GenericModelBases(PYDANTIC_V2))
    /\ pc' = "loaded"
    /\ UNCHANGED <<VERSION, PYDANTIC_V2, heap, call>>

\* line 151: pydantic.generics is looked up as an attribute of the package;
\* if the installed package does not provide it the class statement raises
DefineGenericModelFails ==
    /\ pc = "generic"
    /\ ~PYDANTIC_V2
    /\ pc' = "failed"
    /\ UNCHANGED <<VERSION, PYDANTIC_V2, bound, writes, heap, call>>

\* ---------------------------------------------------------------------------
\* Facade functions
\* ---------------------------------------------------------------------------

\* A call returns or raises: record what it invoked upstream, what that
\* gave (out), what the facade gives its caller (res), and the state the
\* delegate left the passed objects in (h2).
Complete(op, invoked, out, res, h2) ==
    /\ call' = [op |-> op, invoked |-> invoked,
                delegate |-> out, result |-> res, post |-> h2]
    /\ heap' = h2
    /\ UNCHANGED <<VERSION, pc, PYDANTIC_V2, bound, writes>>

\* `return <delegate>`: one upstream invocation whose result or exception is
\* the call's
Forward(op, d) ==
    /\ pc = "loaded"
    /\ \E out \in DelegateOutcomes, h2 \in HeapStates :
           Complete(op, <<d>>, out, out, h2)

\* parse_obj re-running the detection of line 18 on every call
parse_obj_redetect ==
    /\ pc = "loaded"
    /\ \E out \in DelegateOutcomes, h2 \in HeapStates :
           /\ PYDANTIC_V2' = startswith(VERSION, <<"2", ".">>)
           /\ writes' = [writes EXCEPT !["PYDANTIC_V2"] = @ + 1]
           /\ call' = [op |-> "parse_obj",
                       invoked |-> <<IF PYDANTIC_V2' THEN "model_validate" ELSE "parse_obj">>,
                       delegate |-> out, result |-> out, post |-> h2]
           /\ heap' = h2
           /\ UNCHANGED <<VERSION, pc, bound>>

parse_obj ==
    Forward("parse_obj", IF PYDANTIC_V2 THEN "model_validate" ELSE "parse_obj")

field_is_required ==
    Forward("field_is_required", IF PYDANTIC_V2 THEN "is_required()" ELSE "required")

\* line 93: `value == PydanticUndefined` used as an `if` condition
PyEqUndefined(value) ==
    CASE value \in {"Undefined", "EqAny"} -> "True"
      [] value = "EqRaises" -> "raise"
      [] OTHER -> "False"

\* lines 89-96, given what field.get_default() did.  The import of line 91
\* runs only when the flag is true, where pydantic_core is installed with
\* pydantic itself, so it is taken to succeed.
field_get_default_result(flag, out) ==
    IF out.kind = "raise" THEN out
    ELSE IF flag
         THEN CASE PyEqUndefined(out.val) = "raise" -> Raise("CmpError")
                [] PyEqUndefined(out.val) = "True" -> Ret("None")
                [] OTHER -> out
         ELSE out

field_get_default ==
    /\ pc = "loaded"
    /\ \E out \in DelegateOutcomes, h2 \in HeapStates :
           Complete("field_get_default", <<"get_default()">>, out,
                    field_get_default_result(PYDANTIC_V2, out), h2)

field_outer_type ==
    Forward("field_outer_type", IF PYDANTIC_V2 THEN "annotation" ELSE "outer_type_")

get_model_config ==
    Forward("get_model_config", IF PYDANTIC_V2 THEN "model_config" ELSE "__config__")

get_model_fields ==
    Forward("get_model_fields", IF PYDANTIC_V2 THEN "model_fields" ELSE "__fields__")

model_copy ==
    Forward("model_copy", IF PYDANTIC_V2 THEN "model_copy" ELSE "copy")

\* model_json with the two branches exchanged
model_json_swapped ==
    Forward("model_json", IF PYDANTIC_V2 THEN "json" ELSE "model_dump_json")

model_json ==
    Forward("model_json", IF PYDANTIC_V2 THEN "model_dump_json" ELSE "json")

\* model_dump answering a repeated call from the previous call's result
model_dump_cached ==
    /\ pc = "loaded"
    /\ IF call.op = "model_dump"
       THEN Complete("model_dump", <<>>, call.delegate, call.result, heap)
       ELSE \E out \in DelegateOutcomes, h2 \in HeapStates :
                Complete("model_dump",
                         <<IF PYDANTIC_V2 THEN "model_dump" ELSE "dict">>, out, out, h2)

model_dump ==
    Forward("model_dump", IF PYDANTIC_V2 THEN "model_dump" ELSE "dict")

Next ==
    \/ Detect
    \/ ImportHelper
    \/ ImportHelperFails
    \/ BindConfigDict
    \/ BindConfigDictFails
    \/ DefineFacade
    \/ DefineGenericModel
    \/ DefineGenericModelFails
    \/ parse_obj
    \/ field_is_required
    \/ field_get_default
    \/ field_outer_type
    \/ get_model_config
    \/ get_model_fields
    \/ model_copy
    \/ model_json
    \/ model_dump

Spec == Init /\ [][Next]_vars

\* ---------------------------------------------------------------------------
\* Properties
\* ---------------------------------------------------------------------------

\* the delegate each facade function is documented to use, per version
V2Delegate(op) ==
    CASE op = "parse_obj" -> "model_validate"
      [] op = "field_is_required" -> "is_required()"
      [] op = "field_get_default" -> "get_default()"
      [] op = "field_outer_type" -> "annotation"
      [] op = "get_model_config" -> "model_config"
      [] op = "get_model_fields" -> "model_fields"
      [] op = "model_copy" -> "model_copy"
      [] op = "model_json" -> "model_dump_json"
      [] op = "model_dump" -> "model_dump"

V1Delegate(op) ==
    CASE op = "parse_obj" -> "parse_obj"
      [] op = "field_is_required" -> "required"
      [] op = "field_get_default" -> "get_default()"
      [] op = "field_outer_type" -> "outer_type_"
      [] op = "get_model_config" -> "__config__"
      [] op = "get_model_fields" -> "__fields__"
      [] op = "model_copy" -> "copy"
      [] op = "model_json" -> "json"
      [] op = "model_dump" -> "dict"

\* the version string begins with the two characters "2."
BeginsWithTwoDot ==
    /\ Len(VERSION) >= 2
    /\ VERSION[1] = "2"
    /\ VERSION[2] = "."

\* every version-dependent name is bound as the second-major-version branch binds it
AllBoundV2 ==
    /\ \A h \in {"get_args", "is_union", "get_origin", "is_typeddict", "is_literal_type"} :
           bound[h] = <<"pydantic.v1", "typing", h>>
    /\ \A h \in {"parse_date", "parse_datetime"} :
           bound[h] = <<"pydantic.v1", "datetime_parse", h>>
    /\ bound["ConfigDict"] = <<"pydantic", "ConfigDict">>
    /\ bound["GenericModel"] = <<"pydantic.BaseModel">>

\* every version-dependent name is bound as the first-major-version branch binds it
AllBoundV1 ==
    /\ \A h \in {"get_args", "is_union", "get_origin", "is_typeddict", "is_literal_type"} :
           bound[h] = <<"pydantic", "typing", h>>
    /\ \A h \in {"parse_date", "parse_datetime"} :
           bound[h] = <<"pydantic", "datetime_parse", h>>
    /\ bound["ConfigDict"] = <<"None">>
    /\ bound["GenericModel"] = <<"pydantic.generics.GenericModel", "pydantic.BaseModel">>

\* C1: each of the eight forwarding functions invokes exactly the delegate of
\* the detected version, once, and gives back that delegate's result unchanged.
C1_DispatchesToDetectedVersion ==
    call.op \in FacadeOps \ {"field_get_default"} =>
        /\ call.invoked =
               <<IF PYDANTIC_V2 THEN V2Delegate(call.op) ELSE V1Delegate(call.op)>>
        /\ call.result = call.delegate

\* C1 witness: a first-major-version parse_obj call that returned a value
C1_Witness ==
    /\ call.op = "parse_obj"
    /\ ~PYDANTIC_V2
    /\ call.invoked = <<"parse_obj">>
    /\ call.result = Ret("a")

\* C2: field_get_default gives None when get_default() yields the undefined
\* sentinel and the value unchanged when it yields anything else, under either
\* detected version.
C2_SentinelNormalised ==
    (call.op = "field_get_default" /\ call.delegate.kind = "ret") =>
        call.result = IF call.delegate.val = "Undefined" THEN Ret("None") ELSE call.delegate

\* C3: a facade call ends in an error exactly when its delegate raised, and
\* then with the delegate's error.
C3_ErrorsPassThrough ==
    call.op # "none" =>
        /\ (call.result.kind = "raise") <=> (call.delegate.kind = "raise")
        /\ call.result.kind = "raise" => call.result = call.delegate

\* C4: PYDANTIC_V2 is assigned once, by the detection step, and no later step
\* (no facade call in particular) assigns it or changes its value.
C4_FlagAssignedOnce ==
    [][/\ writes'["PYDANTIC_V2"] <= 1
       /\ (pc = "detect" /\ pc' # "detect") => writes'["PYDANTIC_V2"] = 1
       /\ pc # "detect" =>
              /\ PYDANTIC_V2' = PYDANTIC_V2
              /\ writes'["PYDANTIC_V2"] = writes["PYDANTIC_V2"]]_vars

\* C4 witness: a facade call made after the load, the flag written once
C4_Witness ==
    /\ pc = "loaded"
    /\ call.op = "model_copy"
    /\ PYDANTIC_V2
    /\ writes["PYDANTIC_V2"] = 1

\* C8: a facade call makes exactly one upstream invocation of its own (nothing
\* is answered from an earlier call), leaves the passed objects as the
\* delegate left them, and touches nothing of the module's own state.
C8_NoOwnSideEffect ==
    [][pc = "loaded" =>
           /\ Len(call'.invoked) = 1
           /\ heap' = call'.post
           /\ UNCHANGED <<VERSION, pc, PYDANTIC_V2, bound, writes>>]_vars

\* C8 witness: a call after which the passed objects are as its delegate left
\* them, in a state other than the initial one
C8_Witness ==
    /\ call.op = "model_dump"
    /\ Len(call.invoked) = 1
    /\ call.post = "s1"
    /\ heap = "s1"

\* C9: once the module is loaded every version-dependent name is bound by the
\* branch the flag selects, and each was bound exactly once.
C9_BindingsFollowFlag ==
    pc = "loaded" =>
        /\ IF PYDANTIC_V2 THEN AllBoundV2 ELSE AllBoundV1
        /\ \A n \in Names : writes[n] = 1

\* C9 witness: a loaded module on the second-major-version branch
C9_Witness ==
    /\ pc = "loaded"
    /\ PYDANTIC_V2
    /\ bound["is_union"] = <<"pydantic.v1", "typing", "is_union">>

\* C10: the flag is true exactly for version strings beginning with "2."; any
\* other string selects the first-major-version branch for every binding and
\* every facade call; detection itself never fails.
C10_PrefixDecides ==
    /\ pc # "detect" => (PYDANTIC_V2 <=> BeginsWithTwoDot)
    /\ pc = "failed" => writes["PYDANTIC_V2"] = 1
    /\ (pc = "loaded" /\ ~BeginsWithTwoDot) => AllBoundV1
    /\ (call.op # "none" /\ ~BeginsWithTwoDot) => call.invoked = <<V1Delegate(call.op)>>
    /\ (call.op # "none" /\ BeginsWithTwoDot) => call.invoked = <<V2Delegate(call.op)>>

\* C10 witness: version "201" (begins with "2", not with "2.") is loaded on
\* the first-major-version branch and a call dispatches there
C10_Witness ==
    /\ VERSION = <<"2", "0", "1">>
    /\ pc = "loaded"
    /\ ~PYDANTIC_V2
    /\ call.op = "model_json"
    /\ call.invoked = <<"json">>

====
